---- MODULE Spec2Model ----
(***************************************************************************)
(* Model of the MCP Directory Analyzer server (main_end.py): the three     *)
(* request handlers list_directory, read_document_chunk and                *)
(* save_summary_to_db, the summaries table they share, and the caller-side *)
(* pagination loop the chunk reader is written for.                        *)
(***************************************************************************)
EXTENDS Integers, Sequences, FiniteSets, TLC

VARIABLES
    file,        \* what the requested document path names (see Paths)
    lastReq,     \* the last read_document_chunk request body (or NoReq)
    resp,        \* the last read_document_chunk response (or NoResp)
    pgChunk,     \* pagination loop: the fixed chunk_size the caller passes
    pgOffset,    \* pagination loop: the offset of the next call
    pgLog,       \* pagination loop: the responses received so far
    pgTrunc,     \* pagination loop: TRUE once a response was left out of pgLog
    pgTick,      \* pagination loop: the parity of the number of calls made
    pgPc,        \* pagination loop: "off", "paging" or "done"
    dir,         \* the directory at the requested path: NoDir, or its children
    listing,     \* the last list_directory response (or NoResp)
    summaries,   \* the committed rows of table summaries
    writer,      \* the connection holding the database write lock (or NoConn)
    pc,          \* save_summary_to_db: each request's position in the handler
    body,        \* save_summary_to_db: each request's body
    pending,     \* save_summary_to_db: each connection's uncommitted table
    saved,       \* save_summary_to_db: the status code of each connection's last response
    lastCommit,  \* history: per document_id, the body of the last committed save
    overlap,     \* history: a save of the same id was open while this request was
    raced,       \* history: the request of the last commit overlapped such a save
    replaced     \* history: the last commit replaced a row that differed from its own

vars == <<file, lastReq, resp, pgChunk, pgOffset, pgLog, pgTrunc, pgTick, pgPc,
          dir, listing, summaries, writer, pc, body, pending, saved,
          lastCommit, overlap, raced, replaced>>

chunkVars == <<file, lastReq, resp>>
pagerVars == <<pgChunk, pgOffset, pgLog, pgTrunc, pgTick, pgPc>>
listVars  == <<dir, listing>>
storeVars == <<summaries, writer, pc, body, pending, saved, lastCommit, overlap,
               raced, replaced>>

----------------------------------------------------------------------------
(* Bounds *)

MaxLen == 3      \* longest file, in bytes
MaxOff == 4      \* offsets range over -MaxOff .. MaxOff
MaxChunk == 3    \* chunk sizes range over -MaxChunk .. MaxChunk

Offsets == (0 - MaxOff) .. MaxOff
ChunkSizes == (0 - MaxChunk) .. MaxChunk

\* 'a', 'b', and the two bytes of U+00E9; a lone 195 or 169 is undecodable
Bytes == {97, 98, 195, 169}

RECURSIVE SeqsUpTo(_, _)
SeqsUpTo(S, n) ==
    IF n = 0 THEN {<<>>}
    ELSE LET shorter == SeqsUpTo(S, n - 1)
         IN  shorter \cup {Append(s, x) : s \in {t \in shorter : Len(t) = n - 1}, x \in S}

Files == SeqsUpTo(Bytes, MaxLen)

\* what the path names: nothing, something read_text cannot read (a
\* directory, a file without read permission), or a file with its bytes
NoFile == [kind |-> "missing"]
Unreadable == [kind |-> "unreadable"]
FileOf(b) == [kind |-> "file", bytes |-> b]
Paths == {NoFile, Unreadable} \cup {FileOf(b) : b \in Files}

NoReq == [kind |-> "none"]
NoResp == [code |-> 0]

\* an Optional[int]: None is the empty set, the integer n is {n}
None == {}
Some(n) == {n}

Max(a, b) == IF a >= b THEN a ELSE b
Min(a, b) == IF a <= b THEN a ELSE b

----------------------------------------------------------------------------
(* read_document_chunk *)

\* path.read_text(encoding="utf-8", errors="ignore"): the code points of the
\* bytes, bytes that do not decode dropped.  One- and two-byte sequences.
RECURSIVE Decode(_)
Decode(b) ==
    IF b = <<>> THEN <<>>
    ELSE LET h == Head(b) IN
         IF h < 128 THEN <<h>> \o Decode(Tail(b))
         ELSE IF h >= 194 /\ h <= 223
              THEN IF Len(b) >= 2 /\ b[2] >= 128 /\ b[2] <= 191
                   THEN <<(h - 192) * 64 + (b[2] - 128)>> \o Decode(Tail(Tail(b)))
                   ELSE Decode(Tail(b))
              ELSE Decode(Tail(b))

\* text[start:end], Python's slice of a str: a negative index counts from
\* the end, both indices are clamped into 0 .. len(text).
PySlice(text, start, end) ==
    LET n  == Len(text)
        lo == IF start < 0 THEN Max(start + n, 0) ELSE Min(start, n)
        hi == IF end < 0 THEN Max(end + n, 0) ELSE Min(end, n)
    IN  IF lo < hi THEN SubSeq(text, lo + 1, hi) ELSE <<>>

\* round(x, 1) of x = num/den * 100, in tenths of a percent (ties to even)
RoundTenths(num, den) ==
    LET n == num * 1000
        q == n \div den
        r == n % den
    IN  IF 2 * r < den THEN q
        ELSE IF 2 * r > den THEN q + 1
        ELSE IF q % 2 = 0 THEN q ELSE q + 1

\* str() of a float that holds t tenths: "33.3", "100.0", "-50.0"
FloatStr(t) ==
    IF t < 0 THEN "-" \o ToString((0 - t) \div 10) \o "." \o ToString((0 - t) % 10)
    ELSE ToString(t \div 10) \o "." \o ToString(t % 10)

\* f"{round((end/total_len)*100, 1)}%" if total_len > 0 else "0%"
Progress(end, total_len) ==
    IF total_len > 0 THEN FloatStr(RoundTenths(end, total_len)) \o "%" ELSE "0%"

\* mutant: the offset is not clamped at 0
ChunkStartUnclamped(offset) == offset

ChunkStart(offset) == Max(0, offset)

ChunkEnd(total_len, start, chunk_size) == Min(total_len, start + chunk_size)

\* mutant: eof only past the end of the text
EofStrict(end, total_len) == end > total_len

Eof(end, total_len) == end >= total_len

\* mutant: next_offset is set at eof too
NextOffsetAlways(end, eof) == Some(end)

NextOffset(end, eof) == IF ~eof THEN Some(end) ELSE None

\* the handler's response for a request body [offset, chunk_size]
ChunkResponse(f, offset, chunk_size) ==
    IF f = NoFile THEN [code |-> 404]
    ELSE IF f = Unreadable THEN [code |-> 500]
    ELSE LET text      == Decode(f.bytes)
             total_len == Len(text)
             start     == ChunkStart(offset)
             end       == ChunkEnd(total_len, start, chunk_size)
             chunk     == PySlice(text, start, end)
             eof       == Eof(end, total_len)
         IN  [code         |-> 200,
              offset       |-> start,
              next_offset  |-> NextOffset(end, eof),
              chunk_size   |-> Len(chunk),
              total_length |-> total_len,
              progress     |-> Progress(end, total_len),
              eof          |-> eof,
              content      |-> chunk]

ReadDocumentChunk(offset, chunk_size) ==
    /\ lastReq' = [offset |-> offset, chunk_size |-> chunk_size]
    /\ resp' = ChunkResponse(file, offset, chunk_size)
    /\ UNCHANGED <<file, pagerVars, listVars, storeVars>>

----------------------------------------------------------------------------
(* The caller's pagination loop: offset = 0, then offset = next_offset of   *)
(* the previous response, until a response has eof = true.                  *)

\* responses kept in pgLog; a loop that reaches eof needs at most MaxLen calls
MaxCalls == MaxLen + 1

PageCall ==
    /\ pgPc = "paging"
    /\ LET r == ChunkResponse(file, pgOffset, pgChunk) IN
       /\ pgLog' = IF Len(pgLog) < MaxCalls THEN Append(pgLog, r) ELSE pgLog
       /\ pgTrunc' = (pgTrunc \/ Len(pgLog) >= MaxCalls)
       /\ pgTick' = ~pgTick
       /\ IF r.eof
          THEN pgPc' = "done" /\ pgOffset' = pgOffset
          ELSE pgPc' = "paging" /\ pgOffset' \in r.next_offset
    /\ UNCHANGED <<pgChunk, chunkVars, listVars, storeVars>>

----------------------------------------------------------------------------
(* list_directory *)

MaxEntries == 2  \* most children of the listed directory

\* child names, as sequences of characters
Names ==
    { <<"a", ".", "t", "x", "t">>,
      <<"A", ".", "T", "X", "T">>,
      <<"b", ".", "M", "d">>,
      <<"c", ".", "p", "d", "f">>,
      <<"d", ".", "p", "y">>,
      <<".", "m", "d">>,
      <<"e", ".", "t", "x", "t", ".", "m", "d">>,
      <<"f", ".", "m", "d", ".", "b", "a", "k">>,
      <<"m", "d">>,
      <<"g", ".", "m", "d", ".">>,
      <<"h", ".", "m", "d", "x">> }

Entry(name, is_dir) == [name |-> name, is_dir |-> is_dir]

\* what the requested directory path names: nothing, a regular file, or a
\* directory with its immediate children (names are unique in a directory)
NoDir == [kind |-> "missing"]
NotADir == [kind |-> "file"]
DirOf(entries) == [kind |-> "dir", entries |-> entries]
ChildSets ==
    {es \in SUBSET {Entry(n, d) : n \in Names, d \in BOOLEAN} :
        /\ Cardinality(es) <= MaxEntries
        /\ \A e1, e2 \in es : e1.name = e2.name => e1 = e2}
DirPaths == {NoDir, NotADir} \cup {DirOf(es) : es \in ChildSets}

\* str.rfind("."): the 0-based index of the last ".", -1 if there is none
RECURSIVE RFindDot(_)
RFindDot(name) ==
    IF name = <<>> THEN 0 - 1
    ELSE IF name[Len(name)] = "." THEN Len(name) - 1
    ELSE RFindDot(SubSeq(name, 1, Len(name) - 1))

\* PurePath.suffix: the name from its last "." on, unless that "." is the
\* first or the last character of the name
Suffix(name) ==
    LET i == RFindDot(name)
    IN  IF 0 < i /\ i < Len(name) - 1 THEN SubSeq(name, i + 1, Len(name)) ELSE <<>>

LowerChar(c) ==
    CASE c = "A" -> "a" [] c = "D" -> "d" [] c = "F" -> "f" [] c = "M" -> "m"
      [] c = "P" -> "p" [] c = "T" -> "t" [] c = "X" -> "x"
      [] OTHER -> c

\* mutant: the suffix is compared as it is spelled
LowerNot(str) == str

\* str.lower()
Lower(str) == [i \in 1 .. Len(str) |-> LowerChar(str[i])]

Extensions == { <<".", "t", "x", "t">>, <<".", "m", "d">>, <<".", "p", "d", "f">> }

\* the filter of the list comprehension
Listed(f) == Lower(Suffix(f.name)) \in Extensions

\* the sequences that hold each element of S once: the orders iterdir may use
Orders(S) ==
    {q \in [1 .. Cardinality(S) -> S] : \A i, j \in 1 .. Cardinality(S) : q[i] = q[j] => i = j}

RECURSIVE SelectListed(_)
SelectListed(q) ==
    IF q = <<>> THEN <<>>
    ELSE IF Listed(Head(q)) THEN <<Head(q)>> \o SelectListed(Tail(q))
    ELSE SelectListed(Tail(q))

ListDirectory ==
    /\ \/ dir = NoDir /\ listing' = [code |-> 404]
       \/ dir = NotADir /\ listing' = [code |-> 500]
       \/ /\ dir.kind = "dir"
          /\ \E q \in Orders(dir.entries) :
                listing' = [code |-> 200, files |-> SelectListed(q)]
    /\ UNCHANGED <<dir, chunkVars, pagerVars, storeVars>>

----------------------------------------------------------------------------
(* save_summary_to_db and the summaries table *)

Conns == {"c1", "c2"}   \* requests in flight, one connection each
NoConn == "none"

DocIds == {"d1", "d2"}
Filenames == {"f1", "f2"}
SummaryTexts == {"s1", "s2"}
Statuses == {"completed", "failed", "pending"}

\* request bodies: the four fields as strings (every combination for d1, two
\* for d2), or a body without status
FullBodies ==
    [document_id : {"d1"}, filename : Filenames, summary : SummaryTexts, status : Statuses]
    \cup [document_id : {"d2"}, filename : {"f2"}, summary : {"s2"},
          status : {"completed", "failed"}]
ShortBodies == [document_id : DocIds, filename : {"f1"}, summary : {"s1"}]
Bodies == FullBodies \cup ShortBodies
NoBody == [kind |-> "none"]

\* class SaveSummaryRequest: four required fields, each a str
SaveSummaryRequest(b) == DOMAIN b = {"document_id", "filename", "summary", "status"}

\* CREATE TABLE IF NOT EXISTS summaries: a fresh database has no rows
InitDb == {}

\* mutant: a plain INSERT into a table without the primary key
InsertPlain(table, row) == table \cup {row}

\* INSERT OR REPLACE with PRIMARY KEY document_id: the rows that conflict
\* with the new row on the key are deleted, then the row is inserted
InsertOrReplace(table, row) ==
    {r \in table : r.document_id # row.document_id} \cup {row}

\* the VALUES tuple of the statement
RowOf(b) ==
    [document_id |-> b.document_id, filename |-> b.filename,
     summary |-> b.summary, status |-> b.status]

\* the request body is validated; sqlite3.connect and conn.cursor
Receive(c, b) ==
    /\ pc[c] = "idle"
    /\ IF SaveSummaryRequest(b)
       THEN /\ pc' = [pc EXCEPT ![c] = "connected"]
            /\ body' = [body EXCEPT ![c] = b]
            /\ saved' = [saved EXCEPT ![c] = NoResp]
            /\ overlap' = [o \in Conns |->
                  IF o = c
                  THEN \E x \in Conns \ {c} :
                          pc[x] # "idle" /\ body[x].document_id = b.document_id
                  ELSE overlap[o] \/
                          (pc[o] # "idle" /\ body[o].document_id = b.document_id)]
       ELSE /\ saved' = [saved EXCEPT ![c] = [code |-> 422]]
            /\ UNCHANGED <<pc, body, overlap>>
    /\ UNCHANGED <<summaries, writer, pending, lastCommit, raced, replaced,
                   chunkVars, pagerVars, listVars>>

\* mutant: writers do not exclude each other
WriteLockIgnored(c) == TRUE

\* the database's write lock is free for connection c to take
WriteLockFree(c) == writer = NoConn

\* c.execute: the statement opens a transaction and takes the write lock
Execute(c) ==
    /\ pc[c] = "connected"
    /\ WriteLockFree(c)
    /\ writer' = c
    /\ pending' = [pending EXCEPT ![c] = InsertOrReplace(summaries, RowOf(body[c]))]
    /\ pc' = [pc EXCEPT ![c] = "executed"]
    /\ UNCHANGED <<summaries, body, saved, lastCommit, overlap, raced, replaced,
                   chunkVars, pagerVars, listVars>>

\* c.execute while another connection holds the write lock past the busy
\* timeout: sqlite3.OperationalError, the request ends with a 500
ExecuteBusy(c) ==
    /\ pc[c] = "connected"
    /\ writer \notin {NoConn, c}
    /\ pc' = [pc EXCEPT ![c] = "idle"]
    /\ body' = [body EXCEPT ![c] = NoBody]
    /\ saved' = [saved EXCEPT ![c] = [code |-> 500]]
    /\ overlap' = [overlap EXCEPT ![c] = FALSE]
    /\ UNCHANGED <<summaries, writer, pending, lastCommit, raced, replaced,
                   chunkVars, pagerVars, listVars>>

\* the table once connection c commits its transaction
Committed(c) == pending[c]

\* conn.commit, conn.close and the response (which echoes the request)
Commit(c) ==
    /\ pc[c] = "executed"
    /\ summaries' = Committed(c)
    /\ writer' = NoConn
    /\ pending' = [pending EXCEPT ![c] = {}]
    /\ pc' = [pc EXCEPT ![c] = "idle"]
    /\ body' = [body EXCEPT ![c] = NoBody]
    /\ saved' = [saved EXCEPT ![c] = [code |-> 200]]
    /\ lastCommit' = [lastCommit EXCEPT ![body[c].document_id] = body[c]]
    /\ raced' = overlap[c]
    /\ overlap' = [overlap EXCEPT ![c] = FALSE]
    /\ replaced' = (\E r \in summaries :
                       /\ r.document_id = body[c].document_id
                       /\ r.summary # body[c].summary
                       /\ r.status # body[c].status)
    /\ UNCHANGED <<chunkVars, pagerVars, listVars>>

----------------------------------------------------------------------------
(* Specifications *)

ChunkIdle == /\ file = NoFile /\ lastReq = NoReq /\ resp = NoResp
PagerIdle == /\ pgChunk = 0 /\ pgOffset = 0 /\ pgLog = <<>>
             /\ pgTrunc = FALSE /\ pgTick = FALSE /\ pgPc = "off"
ListIdle  == /\ dir = NoDir /\ listing = NoResp
StoreInit == /\ summaries = InitDb
             /\ writer = NoConn
             /\ pc = [c \in Conns |-> "idle"]
             /\ body = [c \in Conns |-> NoBody]
             /\ pending = [c \in Conns |-> {}]
             /\ saved = [c \in Conns |-> NoResp]
             /\ lastCommit = [d \in DocIds |-> NoBody]
             /\ overlap = [c \in Conns |-> FALSE]
             /\ raced = FALSE
             /\ replaced = FALSE

\* read_document_chunk on any path, with any offset and chunk_size
InitChunk ==
    /\ file \in Paths /\ lastReq = NoReq /\ resp = NoResp
    /\ PagerIdle /\ ListIdle /\ StoreInit
NextChunk == \E offset \in Offsets, chunk_size \in ChunkSizes :
                ReadDocumentChunk(offset, chunk_size)
SpecChunk == InitChunk /\ [][NextChunk]_vars

\* the pagination loop over any file, with any fixed chunk_size
InitPager ==
    /\ file \in {FileOf(b) : b \in Files} /\ lastReq = NoReq /\ resp = NoResp
    /\ pgChunk \in ChunkSizes /\ pgOffset = 0 /\ pgLog = <<>>
    /\ pgTrunc = FALSE /\ pgTick = FALSE /\ pgPc = "paging"
    /\ ListIdle /\ StoreInit
NextPager == PageCall
SpecPager == InitPager /\ [][NextPager]_vars
\* the caller keeps calling while it has no eof
SpecPagerFair == SpecPager /\ WF_vars(PageCall)

\* list_directory on any path
InitList ==
    /\ dir \in DirPaths /\ listing = NoResp
    /\ ChunkIdle /\ PagerIdle /\ StoreInit
NextList == ListDirectory
SpecList == InitList /\ [][NextList]_vars

\* concurrent save_summary_to_db requests
InitStore == ChunkIdle /\ PagerIdle /\ ListIdle /\ StoreInit
NextStore ==
    \E c \in Conns :
        \/ \E b \in Bodies : Receive(c, b)
        \/ Execute(c)
        \/ ExecuteBusy(c)
        \/ Commit(c)
SpecStore == InitStore /\ [][NextStore]_vars

----------------------------------------------------------------------------
(* Properties of read_document_chunk (SpecChunk) *)

ReqStart == Max(0, lastReq.offset)
ReqEnd == Min(resp.total_length, ReqStart + lastReq.chunk_size)

\* C3 as stated: the content has length
\* max(0, min(L, offset + chunk_size) - max(0, offset)) for all integers
\* offset and chunk_size.
C3_ContentLength ==
    resp.code = 200 =>
        Len(resp.content) =
            Max(0, Min(resp.total_length, lastReq.offset + lastReq.chunk_size)
                   - Max(0, lastReq.offset))

\* C3 amended: with start = max(0, offset), the content has length
\* max(0, min(L, start + chunk_size) - start) when start + chunk_size >= 0,
\* and length max(0, L + chunk_size) when start + chunk_size < 0 (the slice
\* then counts its end from the end of the text).
C3_ContentLengthAmended ==
    resp.code = 200 =>
        Len(resp.content) =
            IF ReqStart + lastReq.chunk_size >= 0
            THEN Max(0, Min(resp.total_length, ReqStart + lastReq.chunk_size) - ReqStart)
            ELSE Max(0, resp.total_length + lastReq.chunk_size)

\* a request with a negative offset that returns a non-empty chunk
C3_Witness ==
    /\ resp.code = 200
    /\ lastReq.offset < 0
    /\ resp.total_length = 3
    /\ Len(resp.content) = 2

\* C4 as stated: on a file whose decoded text is empty, every offset and
\* chunk_size give total_length = 0, content = "", eof = true,
\* next_offset = null and progress = "0%".
C4_EmptyFile ==
    (resp.code = 200 /\ resp.total_length = 0) =>
        /\ resp.content = <<>>
        /\ resp.eof
        /\ resp.next_offset = None
        /\ resp.progress = "0%"

\* C9: next_offset is null exactly when eof is true, and when eof is false
\* next_offset is the end index min(total_len, max(0, offset) + chunk_size)
\* of the slice.
C9_NextOffsetIffEof ==
    resp.code = 200 =>
        /\ (resp.next_offset = None) <=> resp.eof
        /\ ~resp.eof => resp.next_offset = Some(ReqEnd)

\* a response short of the end of the file, with the offset to go on from
C9_Witness ==
    /\ resp.code = 200
    /\ ~resp.eof
    /\ lastReq.chunk_size > 0
    /\ resp.next_offset = Some(resp.offset + resp.chunk_size)

\* C10 as stated: whenever start >= end or start >= total_len the content
\* is empty and the reported chunk_size is 0, for all integers offset and
\* chunk_size.
C10_EmptyOnInvertedRange ==
    (resp.code = 200 /\ (ReqStart >= ReqEnd \/ ReqStart >= resp.total_length)) =>
        /\ resp.content = <<>>
        /\ resp.chunk_size = 0

----------------------------------------------------------------------------
(* Properties of the pagination loop (SpecPager, SpecPagerFair) *)

RECURSIVE Contents(_)
Contents(log) ==
    IF log = <<>> THEN <<>> ELSE Head(log).content \o Contents(Tail(log))

\* C1 as stated: for any fixed chunk_size the chunks received are
\* contiguous (the first starts at 0, each later one where the one before
\* ended), and once a response has eof = true their concatenation is the
\* decoded text.
C1_PaginationComplete ==
    /\ \A i \in 1 .. Len(pgLog) :
          pgLog[i].offset =
              IF i = 1 THEN 0 ELSE pgLog[i - 1].offset + Len(pgLog[i - 1].content)
    /\ (pgPc = "done" /\ ~pgTrunc) => Contents(pgLog) = Decode(file.bytes)

PagerDone == pgPc = "done" /\ pgLog[Len(pgLog)].next_offset = None

\* C2 as stated: for every integer chunk_size the loop eventually receives
\* a response with eof = true and next_offset = null.
C2_PaginationTerminates == <>PagerDone

\* C2 amended: for every chunk_size >= 1 the loop eventually receives a
\* response with eof = true and next_offset = null.
C2_TerminatesPositiveChunk == (pgChunk >= 1) ~> PagerDone

\* a loop with a positive chunk_size that ended after more than one call
C2_Witness ==
    /\ pgPc = "done"
    /\ pgChunk >= 1
    /\ Len(pgLog) >= 2
    /\ ~pgTrunc

----------------------------------------------------------------------------
(* Properties of list_directory (SpecList) *)

\* the names of Names whose final suffix, lowercased, is .txt, .md or .pdf
SuffixedNames ==
    { <<"a", ".", "t", "x", "t">>,
      <<"A", ".", "T", "X", "T">>,
      <<"b", ".", "M", "d">>,
      <<"c", ".", "p", "d", "f">>,
      <<"e", ".", "t", "x", "t", ".", "m", "d">> }

\* C8: for an existing directory the response holds exactly one entry for
\* each child whose final suffix, lowercased, is .txt, .md or .pdf, with the
\* child's is_dir, and no entry for any other child; directories pass the
\* same test.
C8_ListingFilter ==
    (dir.kind = "dir" /\ listing # NoResp) =>
        /\ listing.code = 200
        /\ \A e \in dir.entries :
              e.name \in SuffixedNames =>
                  Cardinality({i \in 1 .. Len(listing.files) : listing.files[i] = e}) = 1
        /\ \A i \in 1 .. Len(listing.files) :
              /\ listing.files[i] \in dir.entries
              /\ listing.files[i].name \in SuffixedNames

\* a listing that holds a directory with a matching suffix, spelled in
\* capitals, and leaves out another child
C8_Witness ==
    /\ dir.kind = "dir"
    /\ listing.code = 200
    /\ Len(listing.files) = 1
    /\ listing.files[1] = Entry(<<"A", ".", "T", "X", "T">>, TRUE)
    /\ Entry(<<"d", ".", "p", "y">>, TRUE) \in dir.entries

----------------------------------------------------------------------------
(* Properties of save_summary_to_db (SpecStore) *)

RowsOf(d) == {r \in summaries : r.document_id = d}

\* C5: the table holds at most one row per document_id, none before the
\* first save of that id, and afterwards the row with the filename, summary
\* and status of the most recent (committed) save of that id; as this holds
\* of every id at once, a save of one id leaves the rows of the others as
\* they were.
C5_UpsertUnique ==
    \A d \in DocIds :
        /\ Cardinality(RowsOf(d)) <= 1
        /\ lastCommit[d] = NoBody => RowsOf(d) = {}
        /\ lastCommit[d] # NoBody =>
              RowsOf(d) = {[document_id |-> d,
                            filename |-> lastCommit[d].filename,
                            summary |-> lastCommit[d].summary,
                            status |-> lastCommit[d].status]}

\* a second save of d1, with another summary and status, next to a row of d2
C5_Witness ==
    /\ replaced
    /\ lastCommit["d1"] # NoBody
    /\ lastCommit["d2"] # NoBody
    /\ saved["c1"].code = 200

\* C6: under every interleaving of concurrent saves, each row of the table
\* is wholly the (filename, summary, status) of one request, the last to
\* commit for its document_id, and once no request is in flight every
\* document_id that was saved has exactly one row.
C6_LastWriteWins ==
    /\ \A r \in summaries :
          /\ lastCommit[r.document_id] # NoBody
          /\ <<r.filename, r.summary, r.status>> =
                <<lastCommit[r.document_id].filename,
                  lastCommit[r.document_id].summary,
                  lastCommit[r.document_id].status>>
    /\ (\A c \in Conns : pc[c] = "idle") =>
          \A d \in DocIds : lastCommit[d] # NoBody => Cardinality(RowsOf(d)) = 1

\* two saves of one id were open together, with different summaries and
\* statuses, and both have committed
C6_Witness ==
    /\ \A c \in Conns : pc[c] = "idle" /\ saved[c].code = 200
    /\ raced
    /\ replaced

\* C7 as stated: a request whose status is neither "completed" nor "failed"
\* is rejected before anything is written, so every row of the table has a
\* status in {completed, failed}.
C7_StatusValidated ==
    \A r \in summaries : r.status \in {"completed", "failed"}

====
